---- MODULE Spec2Model ----
(***************************************************************************)
(* Model of martin/src/source.rs: the tile source registry (TileSources),  *)
(* the Source trait's default methods, and the multi-source resolution     *)
(* get_sources.                                                            *)
(*                                                                         *)
(* Strings are sequences of one-character strings (<<"a", ",">> is "a,"),  *)
(* Option<T> is a sequence of length at most one, Result<T, E> is a record *)
(* with the field ok, a HashMap is a function from its key set, and a      *)
(* BTreeMap is the sequence of its (key, value) pairs in iteration order.  *)
(***************************************************************************)
EXTENDS Integers, Sequences, FiniteSets, TLC

VARIABLES
    registry,   \* TileSources.0 : HashMap<String, Box<dyn Source>>
    contrib,    \* the Vec<TileInfoSources> the registry was built from
    call,       \* the last completed call of a sequential caller, with its result
    callers     \* the concurrent callers, each with the position of its call

vars == <<registry, contrib, call, callers>>

----------------------------------------------------------------------------
(* Bounds of the model *)

\* longest source_ids string passed to get_sources / id passed to get_source
MaxReqLen == 3
\* highest zoom requested in the resolution specification
MaxReqZoom == 1
\* highest zoom and zoom bound in the is_valid_zoom specification
MaxZoom == 4
\* largest number of sources contributed to TileSources::new
MaxSources == 3

----------------------------------------------------------------------------
(* Option, Result, strings *)

None == <<>>
Some(x) == <<x>>
IsSome(o) == o # <<>>
Unwrap(o) == o[1]

Ok(v) == [ok |-> TRUE, val |-> v]
Err(e) == [ok |-> FALSE, err |-> e]

\* the characters of the modelled strings; "," is the separator of get_sources
Alphabet == {",", "a", "b"}

\* the byte of a character (String's Ord compares bytes)
Code(c) == CASE c = "," -> 44 [] c = "a" -> 97 [] c = "b" -> 98

\* the strings over A of length at most n
StringsUpTo(A, n) == UNION {[1..k -> A] : k \in 0..n}

RECURSIVE StrCmpFrom(_, _, _)
\* <str as Ord>::cmp from position i on: -1 (Less), 0 (Equal), 1 (Greater)
StrCmpFrom(s, t, i) ==
    IF i > Len(s) /\ i > Len(t) THEN 0
    ELSE IF i > Len(s) THEN -1
    ELSE IF i > Len(t) THEN 1
    ELSE IF Code(s[i]) < Code(t[i]) THEN -1
    ELSE IF Code(s[i]) > Code(t[i]) THEN 1
    ELSE StrCmpFrom(s, t, i + 1)

\* id1.cmp(id2): lexicographic by bytes
StrCmp(s, t) == StrCmpFrom(s, t, 1)

RECURSIVE SplitFrom(_, _, _, _)
\* str::split(','), the pieces found so far in out and the current piece in cur
SplitFrom(s, i, cur, out) ==
    IF i > Len(s) THEN Append(out, cur)
    ELSE IF s[i] = "," THEN SplitFrom(s, i + 1, <<>>, Append(out, cur))
    ELSE SplitFrom(s, i + 1, Append(cur, s[i]), out)

\* a split that yields no piece for the empty string, as split_terminator and the
\* split of other languages do
SplitEmptyIsNoPiece(s) == IF s = <<>> THEN <<>> ELSE SplitFrom(s, 1, <<>>, <<>>)
\* source_ids.split(','): always at least one piece, empty pieces are kept
Split(s) == SplitFrom(s, 1, <<>>, <<>>)

----------------------------------------------------------------------------
(* Source: the trait's required methods are the fields of a source value *)

Formats == {"png", "mvt"}
Encodings == {"uncompressed", "gzip"}

\* TileInfo { format, encoding }, compared with the derived ==
TileInfos == [format : Formats, encoding : Encodings]

MkTileJSON(minz, maxz, name, descr, attr) ==
    [minzoom |-> minz, maxzoom |-> maxz, name |-> name,
     description |-> descr, attribution |-> attr]

MkSource(id, tj, info, query) ==
    [id |-> id, tilejson |-> tj, info |-> info, query |-> query]

GetId(src) == src.id
GetTilejson(src) == src.tilejson
GetTileInfo(src) == src.info
SupportUrlQuery(src) == src.query

\* is_valid_zoom with the bounds excluded (> and < for >= and <=)
IsValidZoomExclusive(src, zoom) ==
    LET tj == GetTilejson(src) IN
    /\ (IF IsSome(tj.minzoom) THEN zoom > Unwrap(tj.minzoom) ELSE TRUE)
    /\ (IF IsSome(tj.maxzoom) THEN zoom < Unwrap(tj.maxzoom) ELSE TRUE)
\* Source::is_valid_zoom, the default method
IsValidZoom(src, zoom) ==
    LET tj == GetTilejson(src) IN
    /\ (IF IsSome(tj.minzoom) THEN zoom >= Unwrap(tj.minzoom) ELSE TRUE)
    /\ (IF IsSome(tj.maxzoom) THEN zoom <= Unwrap(tj.maxzoom) ELSE TRUE)

\* Format::content_type and Encoding::content_encoding of martin_tile_utils
ContentType(format) ==
    CASE format = "png" -> "image/png" [] format = "mvt" -> "application/x-protobuf"
ContentEncoding(encoding) ==
    IF encoding = "gzip" THEN Some("gzip") ELSE None

\* Source::get_catalog_entry, the default method
GetCatalogEntry(src) ==
    LET id == GetId(src)
        tilejson == GetTilejson(src)
        info == GetTileInfo(src)
    IN  [content_type |-> ContentType(info.format),
         content_encoding |-> ContentEncoding(info.encoding),
         name |-> IF IsSome(tilejson.name) /\ Unwrap(tilejson.name) # id
                  THEN tilejson.name ELSE None,
         description |-> tilejson.description,
         attribution |-> tilejson.attribution]

----------------------------------------------------------------------------
(* TileSources *)

\* actix_web::error::ErrorNotFound(msg): an error of kind NotFound (status 404)
ErrorNotFound(msg) == [kind |-> "NotFound", msg |-> msg]

\* format!(text, args...): the text of a message and the values it names
Format(text, args) == [text |-> text, args |-> args]

\* an insert that keeps the value already stored (entry(k).or_insert(v))
HashMapInsertKeepFirst(map, k, v) ==
    IF k \in DOMAIN map THEN map
    ELSE [x \in DOMAIN map \cup {k} |-> IF x = k THEN v ELSE map[x]]
\* HashMap::insert: the value stored under an existing key is replaced
HashMapInsert(map, k, v) ==
    [x \in DOMAIN map \cup {k} |-> IF x = k THEN v ELSE map[x]]

RECURSIVE Flatten(_)
\* sources.into_iter().flatten()
Flatten(lists) ==
    IF lists = <<>> THEN <<>> ELSE Head(lists) \o Flatten(Tail(lists))

RECURSIVE CollectHashMap(_, _)
\* .map(|src| (src.get_id().to_string(), src)).collect() into a HashMap
CollectHashMap(srcs, map) ==
    IF srcs = <<>> THEN map
    ELSE CollectHashMap(Tail(srcs), HashMapInsert(map, GetId(Head(srcs)), Head(srcs)))

\* TileSources::new
New(sources) == CollectHashMap(Flatten(sources), <<>>)

\* TileSources::get_source
GetSource(reg, id) ==
    IF id \in DOMAIN reg THEN Ok(reg[id])
    ELSE Err(ErrorNotFound(Format("Source {id} does not exist", <<id>>)))

\* TileSources::check_zoom (the debug! line writes to the log only)
CheckZoom(src, id, zoom) == IsValidZoom(src, zoom)

\* get_sources, the match on info: all sources must have the same format
MergeInfo(info, src_inf) ==
    IF IsSome(info) /\ Unwrap(info) = src_inf THEN Ok(info)
    ELSE IF IsSome(info)
         THEN Err(ErrorNotFound(Format("Cannot merge sources with {inf} with {src_inf}",
                                       <<Unwrap(info), src_inf>>)))
    ELSE Ok(Some(src_inf))

\* a match on zoom that pushes every source
ZoomAcceptsAll(src, id, zoom) == TRUE
\* get_sources, the match on zoom that decides whether src is pushed
ZoomAccepts(src, id, zoom) ==
    IF IsSome(zoom) THEN CheckZoom(src, id, Unwrap(zoom)) ELSE TRUE

\* the flag assigned instead of accumulated (= for |=)
OrUrlQueryAssign(use_url_query, src) == SupportUrlQuery(src)
\* get_sources, use_url_query |= src.support_url_query()
OrUrlQuery(use_url_query, src) == use_url_query \/ SupportUrlQuery(src)

\* a push that leaves out a source that is in the list already
PushUnique(sources, src) ==
    IF \E i \in DOMAIN sources : sources[i] = src THEN sources ELSE Append(sources, src)
\* get_sources, sources.push(src)
Push(sources, src) == Append(sources, src)

\* the locals of get_sources before the loop
LoopStart == [sources |-> <<>>, info |-> None, use_url_query |-> FALSE, err |-> None]

\* get_sources, the loop body after the lookup of src succeeded
Accept(st, src, id, zoom) ==
    LET use == OrUrlQuery(st.use_url_query, src)
        merged == MergeInfo(st.info, GetTileInfo(src))
    IN  IF ~merged.ok
        THEN [st EXCEPT !.use_url_query = use, !.err = Some(merged.err)]
        ELSE [st EXCEPT !.use_url_query = use,
                        !.info = merged.val,
                        !.sources = IF ZoomAccepts(src, id, zoom)
                                    THEN Push(st.sources, src) ELSE st.sources]

\* an iteration that goes on to the next identifier when the lookup fails
LoopBodySkipMissing(reg, st, id, zoom) ==
    LET found == GetSource(reg, id) IN
    IF ~found.ok THEN st ELSE Accept(st, found.val, id, zoom)
\* get_sources, one iteration of the loop for the identifier id
LoopBody(reg, st, id, zoom) ==
    LET found == GetSource(reg, id) IN
    IF ~found.ok THEN [st EXCEPT !.err = Some(found.err)]
    ELSE Accept(st, found.val, id, zoom)

RECURSIVE Loop(_, _, _, _)
\* get_sources, the for loop: an error returns at once (the ? operator)
Loop(reg, st, ids, zoom) ==
    IF ids = <<>> \/ IsSome(st.err) THEN st
    ELSE Loop(reg, LoopBody(reg, st, Head(ids), zoom), Tail(ids), zoom)

\* get_sources, the return after the loop: info.unwrap() panics on None
Finish(st) ==
    IF IsSome(st.err) THEN Err(Unwrap(st.err))
    ELSE IF ~IsSome(st.info)
         THEN Err([kind |-> "Panic", msg |-> Format("unwrap on a None value", <<>>)])
    ELSE Ok([sources |-> st.sources,
             use_url_query |-> st.use_url_query,
             info |-> Unwrap(st.info)])

\* TileSources::get_sources
GetSources(reg, source_ids, zoom) ==
    Finish(Loop(reg, LoopStart, Split(source_ids), zoom))

----------------------------------------------------------------------------
(* get_catalog *)

\* the catalog keyed by the display name of the source, where it has one
CatalogPairByName(id, src) ==
    <<IF IsSome(GetTilejson(src).name) THEN Unwrap(GetTilejson(src).name) ELSE id,
      GetCatalogEntry(src)>>
\* get_catalog, .map(|(id, src)| (id.to_string(), src.get_catalog_entry()))
CatalogPair(id, src) == <<id, GetCatalogEntry(src)>>

RECURSIVE SortedInsert(_, _)
\* the place of pair p in the sorted sequence s, after the pairs that are not greater
SortedInsert(s, p) ==
    IF s = <<>> THEN <<p>>
    ELSE IF StrCmp(p[1], Head(s)[1]) < 0 THEN <<p>> \o s
    ELSE <<Head(s)>> \o SortedInsert(Tail(s), p)

RECURSIVE SortedByFrom(_, _)
SortedByFrom(pairs, acc) ==
    IF pairs = <<>> THEN acc
    ELSE SortedByFrom(Tail(pairs), SortedInsert(acc, Head(pairs)))

\* Itertools::sorted_by(|(id1, _), (id2, _)| id1.cmp(id2)): a stable sort
SortedBy(pairs) == SortedByFrom(pairs, <<>>)

RECURSIVE BTreeMapInsert(_, _)
\* BTreeMap::insert: the pairs stay in ascending key order, an equal key is replaced
BTreeMapInsert(m, p) ==
    IF m = <<>> THEN <<p>>
    ELSE IF StrCmp(p[1], Head(m)[1]) < 0 THEN <<p>> \o m
    ELSE IF StrCmp(p[1], Head(m)[1]) = 0 THEN <<p>> \o Tail(m)
    ELSE <<Head(m)>> \o BTreeMapInsert(Tail(m), p)

RECURSIVE CollectBTreeMap(_, _)
\* .collect() into TileCatalog = BTreeMap<String, CatalogSourceEntry>
CollectBTreeMap(pairs, m) ==
    IF pairs = <<>> THEN m
    ELSE CollectBTreeMap(Tail(pairs), BTreeMapInsert(m, Head(pairs)))

\* TileSources::get_catalog; order is the iteration order of the HashMap
GetCatalog(reg, order) ==
    CollectBTreeMap(
        SortedBy([i \in 1..Len(order) |-> CatalogPair(order[i], reg[order[i]])]),
        <<>>)

\* the orders in which a HashMap with the key set S may be iterated
IterOrders(S) ==
    {o \in [1..Cardinality(S) -> S] : \A i, j \in DOMAIN o : i # j => o[i] # o[j]}

----------------------------------------------------------------------------
(* The inputs of the specifications *)

\* no call made yet
NoCall == [op |-> "none", ids |-> <<>>, zoom |-> None, done |-> TRUE, res |-> <<>>]

\* a call that is about to be made
Pending(op, ids, zoom) == [op |-> op, ids |-> ids, zoom |-> zoom, done |-> FALSE, res |-> <<>>]

\* the callers of the concurrent specification
Callers == {"c1", "c2"}
Idle == [pc |-> "idle", op |-> "none", ids |-> <<>>, zoom |-> None,
         rest |-> <<>>, st |-> LoopStart, res |-> <<>>]
NoCallers == [c \in Callers |-> Idle]

\* a source that only has an id, a format, a zoom range and the query flag
PlainSource(id, info, minz, maxz, query) ==
    MkSource(id, MkTileJSON(minz, maxz, None, None, None), info, query)

\* the strings given as source_ids and as id
Requests == StringsUpTo(Alphabet, MaxReqLen)
\* the zoom arguments of get_sources
ReqZooms == {None} \cup {Some(z) : z \in 0..MaxReqZoom}

\* the sources of the resolution specification: unbounded, or one zoom level only
ResolveIds == {<<>>, <<"a">>}
ResolveZoomRanges == {<<None, None>>} \cup {<<Some(z), Some(z)>> : z \in 1..MaxReqZoom}
ResolvePool ==
    {PlainSource(id, info, zr[1], zr[2], q) :
        id \in ResolveIds, info \in TileInfos, zr \in ResolveZoomRanges, q \in BOOLEAN}

\* the sources of the is_valid_zoom specification: every pair of optional bounds
ZoomBounds == {None} \cup {Some(z) : z \in 0..MaxZoom}
ZoomPool ==
    {PlainSource(<<"a">>, [format |-> "png", encoding |-> "uncompressed"], lo, hi, FALSE) :
        lo \in ZoomBounds, hi \in ZoomBounds}

\* the sources of the construction specification: same ids under different names
CatalogIds == {<<>>, <<"a">>, <<"a", "b">>, <<"b">>}
CatalogPool ==
    {MkSource(id, MkTileJSON(None, None, name, None, None),
              [format |-> "mvt", encoding |-> "gzip"], FALSE) :
        id \in CatalogIds, name \in {None, Some(<<"a">>)}}

\* the requests and sources of the concurrent specification
ConcRequests == StringsUpTo({",", "a"}, MaxReqLen)
ConcIds == {<<>>, <<"a">>, <<",">>}
ConcPool ==
    {PlainSource(id, [format |-> f, encoding |-> "uncompressed"], None, None, FALSE) :
        id \in ResolveIds, f \in Formats}

\* the sequences over S of length at most n
SeqsUpTo(S, n) == UNION {[1..k -> S] : k \in 0..n}

\* the ways the flat list s is contributed: as one list, as two, one list per source
ContribsOf(s) ==
    {<<s>>}
    \cup {<<SubSeq(s, 1, k), SubSeq(s, k + 1, Len(s))>> : k \in 0..Len(s)}
    \cup {[i \in 1..Len(s) |-> <<s[i]>>]}

----------------------------------------------------------------------------
(* Sequential callers: every call is one action *)

\* the pending call get_source(id) is made
GetSourceCall ==
    /\ call.op = "get_source" /\ ~call.done
    /\ call' = [call EXCEPT !.done = TRUE, !.res = GetSource(registry, call.ids)]
    /\ UNCHANGED <<registry, contrib, callers>>

\* the pending call get_sources(source_ids, zoom) is made
GetSourcesCall ==
    /\ call.op = "get_sources" /\ ~call.done
    /\ call' = [call EXCEPT !.done = TRUE,
                            !.res = GetSources(registry, call.ids, call.zoom)]
    /\ UNCHANGED <<registry, contrib, callers>>

\* a caller calls get_catalog(); the HashMap is iterated in some order
GetCatalogCall ==
    \E order \in IterOrders(DOMAIN registry) :
        /\ call' = [op |-> "get_catalog", ids |-> <<>>, zoom |-> None, done |-> TRUE,
                    res |-> GetCatalog(registry, order)]
        /\ UNCHANGED <<registry, contrib, callers>>

\* a caller looks up one of the contributed ids
GetContributedCall ==
    \E id \in CatalogIds :
        /\ call' = [op |-> "get_source", ids |-> id, zoom |-> None, done |-> TRUE,
                    res |-> GetSource(registry, id)]
        /\ UNCHANGED <<registry, contrib, callers>>

\* a caller calls is_valid_zoom(zoom) on a registered source
IsValidZoomCall ==
    \E id \in DOMAIN registry, zoom \in 0..MaxZoom :
        /\ call' = [op |-> "is_valid_zoom", ids |-> id, zoom |-> Some(zoom), done |-> TRUE,
                    res |-> IsValidZoom(registry[id], zoom)]
        /\ UNCHANGED <<registry, contrib, callers>>

\* the resolution specification: a registry with at most one source per id, and
\* the call that a caller is about to make on it
Init ==
    /\ \E srcs \in SeqsUpTo(ResolvePool, Cardinality(ResolveIds)) :
           registry = New(<<srcs>>)
    /\ contrib = <<>>
    /\ \/ \E id \in Requests : call = Pending("get_source", id, None)
       \/ \E source_ids \in Requests, zoom \in ReqZooms :
              call = Pending("get_sources", source_ids, zoom)
    /\ callers = NoCallers

Next == GetSourceCall \/ GetSourcesCall

Spec == Init /\ [][Next]_vars

\* the construction specification: the registry built from any contribution
InitNew ==
    /\ \E s \in SeqsUpTo(CatalogPool, MaxSources) : contrib \in ContribsOf(s)
    /\ registry = New(contrib)
    /\ call = NoCall
    /\ callers = NoCallers

NextNew == GetCatalogCall \/ GetContributedCall

SpecNew == InitNew /\ [][NextNew]_vars

\* the is_valid_zoom specification: one source with any zoom range
InitZoom ==
    /\ \E src \in ZoomPool : registry = New(<<<<src>>>>)
    /\ contrib = <<>>
    /\ call = NoCall
    /\ callers = NoCallers

NextZoom == IsValidZoomCall

SpecZoom == InitZoom /\ [][NextZoom]_vars

----------------------------------------------------------------------------
(* Concurrent callers: get_sources advances one loop iteration at a time *)

Free(c) == callers[c].pc \in {"idle", "done"}

Returned(c, op, ids, res) ==
    [pc |-> "done", op |-> op, ids |-> ids, zoom |-> None,
     rest |-> <<>>, st |-> LoopStart, res |-> res]

\* caller c enters get_sources(source_ids, None): the locals and the split iterator
BeginBy(c) ==
    /\ Free(c)
    /\ \E source_ids \in ConcRequests :
           callers' = [callers EXCEPT ![c] =
               [pc |-> "loop", op |-> "get_sources", ids |-> source_ids, zoom |-> None,
                rest |-> Split(source_ids), st |-> LoopStart, res |-> <<>>]]
    /\ UNCHANGED <<registry, contrib, call>>

\* a lookup that takes the source out of the map (HashMap::remove for HashMap::get)
StepEvictingBy(c) ==
    /\ callers[c].pc = "loop"
    /\ callers[c].rest # <<>> /\ ~IsSome(callers[c].st.err)
    /\ callers' = [callers EXCEPT
           ![c].st = LoopBody(registry, @, Head(callers[c].rest), callers[c].zoom),
           ![c].rest = Tail(@)]
    /\ registry' = [k \in DOMAIN registry \ {Head(callers[c].rest)} |-> registry[k]]
    /\ UNCHANGED <<contrib, call>>

\* caller c runs one iteration of the loop of get_sources on &self
StepBy(c) ==
    /\ callers[c].pc = "loop"
    /\ callers[c].rest # <<>> /\ ~IsSome(callers[c].st.err)
    /\ callers' = [callers EXCEPT
           ![c].st = LoopBody(registry, @, Head(callers[c].rest), callers[c].zoom),
           ![c].rest = Tail(@)]
    /\ UNCHANGED <<registry, contrib, call>>

\* caller c leaves get_sources: by the ? operator, or after the loop
ReturnBy(c) ==
    /\ callers[c].pc = "loop"
    /\ callers[c].rest = <<>> \/ IsSome(callers[c].st.err)
    /\ callers' = [callers EXCEPT ![c] =
           Returned(c, "get_sources", callers[c].ids, Finish(callers[c].st))]
    /\ UNCHANGED <<registry, contrib, call>>

\* caller c calls get_source(id)
GetSourceBy(c) ==
    /\ Free(c)
    /\ \E id \in ConcIds :
           callers' = [callers EXCEPT ![c] =
               Returned(c, "get_source", id, GetSource(registry, id))]
    /\ UNCHANGED <<registry, contrib, call>>

\* caller c calls get_catalog()
GetCatalogBy(c) ==
    /\ Free(c)
    /\ \E order \in IterOrders(DOMAIN registry) :
           callers' = [callers EXCEPT ![c] =
               Returned(c, "get_catalog", <<>>, GetCatalog(registry, order))]
    /\ UNCHANGED <<registry, contrib, call>>

InitConc ==
    /\ \E srcs \in SeqsUpTo(ConcPool, Cardinality(ResolveIds)) :
           registry = New(<<srcs>>)
    /\ contrib = <<>>
    /\ call = NoCall
    /\ callers = NoCallers

NextConc ==
    \E c \in Callers :
        BeginBy(c) \/ StepBy(c) \/ ReturnBy(c) \/ GetSourceBy(c) \/ GetCatalogBy(c)

SpecConc == InitConc /\ [][NextConc]_vars

----------------------------------------------------------------------------
(* Vocabulary of the properties *)

\* the identifiers of the request of the sequential caller, in request order
ReqIds == Split(call.ids)
ReqDone(op) == call.op = op /\ call.done
Registered(id) == id \in DOMAIN registry
AllRegistered == \A i \in DOMAIN ReqIds : Registered(ReqIds[i])
\* every requested source has the format of the first one
AllFormatsEqual ==
    \A i \in DOMAIN ReqIds : registry[ReqIds[i]].info = registry[ReqIds[1]].info
\* the requested sources, one per occurrence of an identifier
ReqSources == [i \in DOMAIN ReqIds |-> registry[ReqIds[i]]]
\* everything before position i is registered and has the format of the first
CleanBefore(i) ==
    \A j \in 1..(i - 1) :
        Registered(ReqIds[j]) /\ registry[ReqIds[j]].info = registry[ReqIds[1]].info
\* position i is the first whose source has another format than the first source
ConflictAt(i) ==
    /\ i \in DOMAIN ReqIds /\ CleanBefore(i) /\ Registered(ReqIds[i])
    /\ registry[ReqIds[i]].info # registry[ReqIds[1]].info
\* position i is the first identifier without a registered source
MissingAt(i) ==
    i \in DOMAIN ReqIds /\ CleanBefore(i) /\ ~Registered(ReqIds[i])
\* the error get_source gives for id
IsNotFoundOf(res, id) ==
    /\ ~res.ok /\ res.err.kind = "NotFound"
    /\ res.err.msg.text = "Source {id} does not exist"
    /\ res.err.msg.args = <<id>>
\* the zoom range of the tilejson, stated on the two optional bounds
InZoomRange(src, z) ==
    /\ (src.tilejson.minzoom = None \/ z >= src.tilejson.minzoom[1])
    /\ (src.tilejson.maxzoom = None \/ z <= src.tilejson.maxzoom[1])
\* s is before t in the lexicographic order of the bytes
Precedes(s, t) ==
    \E k \in 1..(Len(t)) :
        /\ \A i \in 1..(k - 1) : i <= Len(s) /\ s[i] = t[i]
        /\ (k > Len(s) \/ (k - 1 < Len(s) /\ Code(s[k]) < Code(t[k])))

----------------------------------------------------------------------------
(* Properties *)

\* C1: a get_sources request whose first format conflict comes before any missing
\* identifier fails with a format-mismatch error that is of another kind than
\* NotFound, names the first source's format and the conflicting one, and returns
\* no source list, whatever the zoom argument.
C1_FormatConflictIsItsOwnKind ==
    \A i \in DOMAIN ReqIds :
        (ReqDone("get_sources") /\ ConflictAt(i)) =>
            /\ ~call.res.ok
            /\ call.res.err.kind # "NotFound"
            /\ call.res.err.msg.args = <<registry[ReqIds[1]].info, registry[ReqIds[i]].info>>

\* C1, the part the code keeps: the request fails and the error names both formats
C1_FormatConflictFails ==
    \A i \in DOMAIN ReqIds :
        (ReqDone("get_sources") /\ ConflictAt(i)) =>
            /\ ~call.res.ok
            /\ call.res.err.msg.text = "Cannot merge sources with {inf} with {src_inf}"
            /\ call.res.err.msg.args = <<registry[ReqIds[1]].info, registry[ReqIds[i]].info>>

\* C2: with zoom = Some(z), every identifier registered and all formats equal,
\* get_sources succeeds, returns exactly the requested sources that are valid at z,
\* in request order (possibly none), and the format of the first requested source.
C2_ZoomFiltersInOrder ==
    (ReqDone("get_sources") /\ IsSome(call.zoom) /\ AllRegistered /\ AllFormatsEqual) =>
        LET ValidAtZoom(src) == IsValidZoom(src, call.zoom[1]) IN
        /\ call.res.ok
        /\ call.res.val.sources = SelectSeq(ReqSources, ValidAtZoom)
        /\ call.res.val.info = registry[ReqIds[1]].info

\* C2 happens: a request of several sources of which some, not all, are dropped
C2_Witness ==
    /\ ReqDone("get_sources") /\ IsSome(call.zoom) /\ AllRegistered /\ AllFormatsEqual
    /\ call.res.ok
    /\ Len(call.res.val.sources) > 0
    /\ Len(call.res.val.sources) < Len(ReqIds)
    /\ ~IsValidZoom(registry[ReqIds[1]], call.zoom[1])

\* C3: a get_sources request whose first missing identifier comes before any format
\* conflict fails with NotFound for that identifier, whatever the zoom and the other
\* sources; get_source(id) fails with NotFound iff id is no key of the registry, and
\* returns the registered source otherwise.
C3_MissingIsNotFound ==
    /\ \A i \in DOMAIN ReqIds :
           (ReqDone("get_sources") /\ MissingAt(i)) => IsNotFoundOf(call.res, ReqIds[i])
    /\ ReqDone("get_source") =>
           IF Registered(call.ids)
           THEN call.res.ok /\ call.res.val = registry[call.ids]
           ELSE IsNotFoundOf(call.res, call.ids)

\* C3 happens: a registered source that the zoom excludes, then a missing identifier
C3_Witness ==
    /\ ReqDone("get_sources") /\ IsSome(call.zoom) /\ MissingAt(2)
    /\ ~IsValidZoom(registry[ReqIds[1]], call.zoom[1])
    /\ registry[ReqIds[1]].query
    /\ IsNotFoundOf(call.res, ReqIds[2])

\* C4: with zoom = None, every identifier registered and all formats equal,
\* get_sources succeeds and returns one source per identifier occurrence, in request
\* order and without deduplication, and the common format.
C4_NoZoomReturnsEveryOccurrence ==
    (ReqDone("get_sources") /\ call.zoom = None /\ AllRegistered /\ AllFormatsEqual) =>
        /\ call.res.ok
        /\ Len(call.res.val.sources) = Len(ReqIds)
        /\ call.res.val.sources = ReqSources
        /\ \A i \in DOMAIN ReqIds : call.res.val.info = registry[ReqIds[i]].info

\* C4 happens: an identifier requested twice, around another one
C4_Witness ==
    /\ ReqDone("get_sources") /\ call.zoom = None /\ AllRegistered /\ AllFormatsEqual
    /\ Len(ReqIds) = 3 /\ ReqIds[1] = ReqIds[3] /\ ReqIds[1] # ReqIds[2]
    /\ call.res.ok /\ Len(call.res.val.sources) = 3

\* C5 as claimed: the empty string given to get_sources fails with an error, for
\* every registry.
C5_EmptyInputFails ==
    (ReqDone("get_sources") /\ call.ids = <<>>) => ~call.res.ok

\* C5 as amended: the empty string is resolved as the one identifier "": the call
\* fails with NotFound unless a source with the empty identifier is registered, and
\* then returns the format of that source and the source alone (or no source, when
\* the zoom excludes it); and no get_sources call reaches info.unwrap() with the
\* format unset: a successful return has the format of a registered source.
C5_EmptyInputIsTheEmptyIdentifier ==
    ReqDone("get_sources") =>
        /\ ~call.res.ok => call.res.err.kind # "Panic"
        /\ call.res.ok => \E id \in DOMAIN registry : call.res.val.info = registry[id].info
        /\ call.ids = <<>> =>
               IF Registered(<<>>)
               THEN /\ call.res.ok
                    /\ call.res.val.sources =
                           IF call.zoom = None \/ InZoomRange(registry[<<>>], call.zoom[1])
                           THEN <<registry[<<>>]>> ELSE <<>>
                    /\ call.res.val.info = registry[<<>>].info
               ELSE IsNotFoundOf(call.res, <<>>)

\* C5 happens: the empty string is resolved on a registry that has sources
C5_Witness ==
    /\ ReqDone("get_sources") /\ call.ids = <<>>
    /\ DOMAIN registry # {} /\ ~Registered(<<>>)
    /\ ~call.res.ok

\* C9: the flag of a successful get_sources is the OR of support_url_query over
\* every identifier occurrence of the request, the sources the zoom dropped included.
C9_FlagIsOrOverRequest ==
    (ReqDone("get_sources") /\ call.res.ok) =>
        (call.res.val.use_url_query <=> \E i \in DOMAIN ReqIds : registry[ReqIds[i]].query)

\* C9 happens: the flag is set by a dropped source, no returned source supports it
C9_Witness ==
    /\ ReqDone("get_sources") /\ call.res.ok
    /\ call.res.val.use_url_query
    /\ call.res.val.sources # <<>>
    /\ \A i \in DOMAIN call.res.val.sources : ~call.res.val.sources[i].query

\* C6: is_valid_zoom(z) is true iff z is not below minzoom, when there is one, and
\* not above maxzoom, when there is one; so it is false for every z when
\* minzoom > maxzoom.
C6_ZoomRangeIsInclusive ==
    ReqDone("is_valid_zoom") =>
        LET src == registry[call.ids]  z == call.zoom[1] IN
        /\ call.res <=> InZoomRange(src, z)
        /\ (IsSome(src.tilejson.minzoom) /\ IsSome(src.tilejson.maxzoom)
              /\ src.tilejson.minzoom[1] > src.tilejson.maxzoom[1]) => ~call.res

\* C6 happens: the zoom is both the minzoom and the maxzoom, and is valid
C6_Witness ==
    /\ ReqDone("is_valid_zoom") /\ call.res
    /\ registry[call.ids].tilejson.minzoom = call.zoom
    /\ registry[call.ids].tilejson.maxzoom = call.zoom

\* C7: get_catalog returns one entry per registered identifier and no other, each
\* the get_catalog_entry of the source registered under it, in strictly ascending
\* order of the identifiers.
C7_CatalogIsSortedRegistry ==
    ReqDone("get_catalog") =>
        /\ {call.res[i][1] : i \in DOMAIN call.res} = DOMAIN registry
        /\ Len(call.res) = Cardinality(DOMAIN registry)
        /\ \A i \in DOMAIN call.res :
               call.res[i][2] = GetCatalogEntry(registry[call.res[i][1]])
        /\ \A i, j \in DOMAIN call.res :
               i < j => Precedes(call.res[i][1], call.res[j][1])

\* C7 happens: three sources contributed in two lists, not in ascending order
C7_Witness ==
    /\ ReqDone("get_catalog") /\ Len(call.res) = 3
    /\ Len(contrib) = 2 /\ Len(contrib[1]) = 2 /\ Len(contrib[2]) = 1
    /\ Precedes(contrib[2][1].id, contrib[1][2].id)
    /\ Precedes(contrib[1][2].id, contrib[1][1].id)

\* the positions of the contributed sources, and their flattened order
ContribPos == UNION {{<<i, j>> : j \in DOMAIN contrib[i]} : i \in DOMAIN contrib}
After(p, q) == p[1] > q[1] \/ (p[1] = q[1] /\ p[2] > q[2])

\* C10: the registry has exactly the contributed identifiers as keys, every key is
\* the get_id of the source stored under it, and that source is the last one
\* contributed with this identifier; in every state after construction.
C10_KeysAreIdsLastWins ==
    /\ DOMAIN registry = {contrib[p[1]][p[2]].id : p \in ContribPos}
    /\ \A k \in DOMAIN registry : GetId(registry[k]) = k
    /\ \A p \in ContribPos :
           LET src == contrib[p[1]][p[2]] IN
           (\A q \in ContribPos : After(q, p) => contrib[q[1]][q[2]].id # src.id)
               => registry[src.id] = src

\* C10 happens: two lists contribute different sources under one identifier, and
\* the registry has been read since
C10_Witness ==
    /\ Len(contrib) = 2 /\ contrib[1] # <<>> /\ contrib[2] # <<>>
    /\ contrib[1][1].id = contrib[2][1].id /\ contrib[1][1] # contrib[2][1]
    /\ Cardinality(DOMAIN registry) = 2
    /\ ReqDone("get_catalog")

\* two callers that returned from the same call have the same outcome
SameCallSameOutcome ==
    \A c, d \in Callers :
        (/\ callers[c].pc = "done" /\ callers[d].pc = "done"
         /\ callers[c].op = callers[d].op
         /\ callers[c].ids = callers[d].ids /\ callers[c].zoom = callers[d].zoom)
            => callers[c].res = callers[d].res

\* C8: no step of a get_catalog, get_source or get_sources call, of any caller and
\* in any interleaving, changes the registry, and callers that made the same call,
\* one after the other or at the same time, have the same outcome.
C8_ReadsAreDeterministic ==
    [][registry' = registry /\ SameCallSameOutcome']_vars

\* C8 happens: both callers resolved the same two sources, and got them
C8_Witness ==
    /\ callers["c1"].pc = "done" /\ callers["c2"].pc = "done"
    /\ callers["c1"].op = "get_sources" /\ callers["c2"].op = "get_sources"
    /\ callers["c1"].ids = callers["c2"].ids
    /\ callers["c1"].res.ok
    /\ Len(callers["c1"].res.val.sources) = 2
    /\ callers["c1"].res.val.sources[1] # callers["c1"].res.val.sources[2]

====
